---- MODULE Spec2Model ----
(***************************************************************************)
(* Model of colab_utils.py: the command runner run_cmd, the sequencing     *)
(* helper run_cmd_list and their callers pip_install,                      *)
(* pip_install_from_conda_yaml, clone_repo and install_rdkit.              *)
(*                                                                         *)
(* A command text is the sequence of its words; a line of output is the    *)
(* sequence of its characters (without the newline).  A value that Python  *)
(* holds as "None or v" is <<>> or <<v>>.                                   *)
(***************************************************************************)
EXTENDS Integers, Sequences, FiniteSets, TLC

\* ---------------------------------------------------------------- bounds
MaxLines == 2      \* lines one child writes to its standard output
MaxCmds  == 2      \* length of the list handed to run_cmd_list
MaxDeps  == 2      \* entries of the manifest's dependencies list

\* ---------------------------------------------------------------- inputs
ExitCodes == {0, 1, 2}
Lines     == {<<"a">>, <<>>, <<" ", "b">>}
Cmds      == {<<"A">>, <<"B", "-q">>}
PkgLists  == {<<"x", "y">>, <<"y">>}
Names     == {"f", ".g", "name"}
Hidden    == {".g"}                 \* the names that start with a dot
RepoUrl   == "https://host/group/name.git"

SeqsUpTo(S, n) == UNION {[1..k -> S] : k \in 0..n}

VARIABLES
    pc,          \* position of the caller: idle, call, loop, glob, move, rmtree, done, raised
    op,          \* the top-level function that was called
    cmd_list,    \* the commands the current call hands to run_cmd, in order
    idx,         \* index in cmd_list of the command run_cmd is (about to be) working on
    verbose,     \* run_cmd's verbose flag
    split,       \* run_cmd's split flag
    shell,       \* run_cmd's shell flag
    argv,        \* the argument list handed to Popen for the current command
    invoked,     \* the command texts run_cmd was called with, in call order
    launched,    \* indexes of cmd_list whose child process was spawned, in spawn order
    alive,       \* indexes of cmd_list whose child process has not exited
    hung,        \* the current child never exits
    out_open,    \* the current child still holds the write end of its stdout pipe
    returncode,  \* exit status of the current child: <<>> while running
    pipe,        \* lines written by the current child and not read yet
    written,     \* every line the current child has written
    console,     \* what the current run_cmd call has printed
    ret,         \* the value the last run_cmd call returned (the callers drop it)
    nret,        \* how many run_cmd calls have returned
    error,       \* the exception that ended the call, "" if none
    manifest,    \* the parsed yaml file of pip_install_from_conda_yaml
    force,       \* the force argument
    in_colab,    \* IN_COLAB
    conda_exists,\* os.path.exists(CONDA_DIR)
    cwd,         \* working directory: name -> "absent", "old" (there before), "repo" (moved in)
    repo,        \* <<entries of the clone directory>>; <<>> when the directory does not exist
    cloned,      \* <<entries git clone created>>; <<>> when it created nothing
    todo         \* entries returned by glob and not yet moved

vars == <<pc, op, cmd_list, idx, verbose, split, shell, argv, invoked, launched,
          alive, hung, out_open, returncode, pipe, written, console, ret, nret, error,
          manifest, force, in_colab, conda_exists, cwd, repo, cloned, todo>>

procVars == <<alive, hung, out_open, returncode, pipe, written>>
argVars  == <<manifest, force, in_colab, conda_exists>>
fsVars   == <<cwd, repo, cloned, todo>>

\* ------------------------------------------------------------ str.strip()
Whitespace == {" ", "\n", "\t"}

RECURSIVE LStrip(_)
LStrip(s) ==
    IF s = <<>> THEN s
    ELSE IF Head(s) \in Whitespace THEN LStrip(Tail(s)) ELSE s

RECURSIVE RStrip(_)
RStrip(s) ==
    IF s = <<>> THEN s
    ELSE IF s[Len(s)] \in Whitespace THEN RStrip(SubSeq(s, 1, Len(s) - 1)) ELSE s

Strip(s) == RStrip(LStrip(s))

\* process.stdout.readline(): the next line with its newline, or the empty
\* string at end of file.  It blocks while the pipe is empty and still open.
ReadlineReady == pipe # <<>> \/ ~out_open
Readline      == IF pipe # <<>> THEN Head(pipe) \o <<"\n">> ELSE <<>>

\* process.poll(): <<>> while the child runs, <<status>> once it has exited
Poll == IF idx \in alive THEN <<>> ELSE returncode

\* line 54 without the poll: any empty output ends the loop
BreakCond_NoPoll(output, polled) == output = <<>>

\* line 54 with the poll test the wrong way round
BreakCond_Inverted(output, polled) == output = <<>> /\ polled = <<>>

\* line 54: the test that leaves the read loop
BreakCond(output, polled) == output = <<>> /\ polled # <<>>

\* line 56: the test that echoes a line
EchoCond(output, v) == output # <<>> /\ v

\* line 50: shlex.split(cmd) if split else [cmd]
\* (an argument is the sequence of the words it holds)
ShlexSplit(cmd, s) == IF s THEN [i \in 1..Len(cmd) |-> <<cmd[i]>>] ELSE <<cmd>>

\* what print() puts on the console
CmdEntry(cmd)  == [kind |-> "CMD", text |-> cmd, code |-> <<>>]
OutEntry(line) == [kind |-> "OUT", text |-> line, code |-> <<>>]
ErrEntry(rc)   == [kind |-> "ERR", text |-> <<>>, code |-> rc]
MsgEntry       == [kind |-> "MSG", text |-> <<"Restart", "your", "runtime">>, code |-> <<>>]

\* lines 59-60: the notice printed for a status other than 0
ErrorNotice(return_code) ==
    IF return_code # <<0>> THEN <<ErrEntry(return_code)>> ELSE <<>>

NoCwd == [n \in Names |-> "absent"]
NoManifest == [hasdeps |-> FALSE, deps |-> <<>>]

Init ==
    /\ pc = "idle" /\ op = "" /\ cmd_list = <<>> /\ idx = 0
    /\ verbose = TRUE /\ split = TRUE /\ shell = FALSE /\ argv = <<>>
    /\ invoked = <<>> /\ launched = <<>> /\ alive = {} /\ hung = FALSE
    /\ out_open = FALSE /\ returncode = <<>> /\ pipe = <<>> /\ written = <<>>
    /\ console = <<>> /\ ret = <<>> /\ nret = 0 /\ error = ""
    /\ manifest = NoManifest /\ force = FALSE
    /\ in_colab = FALSE /\ conda_exists = FALSE
    /\ cwd = NoCwd /\ repo = <<>> /\ cloned = <<>> /\ todo = {}

\* the caller starts mapping run_cmd over cmds (an empty list ends at once)
StartList(cmds) ==
    /\ cmd_list' = cmds
    /\ idx' = IF cmds = <<>> THEN 0 ELSE 1
    /\ pc' = IF cmds = <<>> THEN "done" ELSE "call"

\* run_cmd_list(cmd_list)
CallRunCmdList ==
    /\ pc = "idle"
    /\ \E cmds \in SeqsUpTo(Cmds, MaxCmds) : StartList(cmds)
    /\ op' = "run_cmd_list"
    /\ UNCHANGED <<verbose, split, shell, argv, invoked, launched, console, ret, nret, error>>
    /\ UNCHANGED <<procVars, argVars, fsVars>>

\* run_cmd(cmd, verbose=v) called on its own
CallRunCmd ==
    /\ pc = "idle"
    /\ \E c \in Cmds : StartList(<<c>>)
    /\ \E v \in BOOLEAN : verbose' = v
    /\ op' = "run_cmd"
    /\ UNCHANGED <<split, shell, argv, invoked, launched, console, ret, nret, error>>
    /\ UNCHANGED <<procVars, argVars, fsVars>>

\* ------------------------------------------------------------- pip_install
\* line 33
Extra(f) == IF f THEN <<"--upgrade", "--force-reinstall">> ELSE <<>>

\* line 34 walking the package list backwards
PipInstallCmds_Reversed(package_list, f) ==
    [i \in 1..Len(package_list) |->
        <<"pip", "install">> \o Extra(f) \o <<package_list[Len(package_list) + 1 - i]>>]

\* line 34: the command texts pip_install hands to run_cmd, one per package
PipInstallCmds(package_list, f) ==
    [i \in 1..Len(package_list) |-> <<"pip", "install">> \o Extra(f) \o <<package_list[i]>>]

\* --------------------------------------------- pip_install_from_conda_yaml
\* the entries a dependencies list can hold: a package name, or a mapping
\* that may have the key pip, whose value is null (<<>>) or a list (<<list>>)
StrItem       == [isdict |-> FALSE, haspip |-> FALSE, pip |-> <<>>]
DictNoPip     == [isdict |-> TRUE,  haspip |-> FALSE, pip |-> <<>>]
DictPipNull   == [isdict |-> TRUE,  haspip |-> TRUE,  pip |-> <<>>]
DictPip(pkgs) == [isdict |-> TRUE,  haspip |-> TRUE,  pip |-> <<pkgs>>]
Items         == {StrItem, DictNoPip, DictPipNull} \cup {DictPip(l) : l \in PkgLists}
Manifests     == {NoManifest} \cup
                 {[hasdeps |-> TRUE, deps |-> d] : d \in SeqsUpTo(Items, MaxDeps)}

\* line 42: the test made on one entry; item['pip'] raises KeyError when the
\* mapping has no such key
ItemTest(item) ==
    IF ~item.isdict THEN "skip"
    ELSE IF ~item.haspip THEN "KeyError"
    ELSE IF item.pip # <<>> THEN "take" ELSE "skip"

\* lines 41-43: the loop over the entries, from entry i on, pip_config so far
RECURSIVE ScanDeps(_, _, _)
ScanDeps(deps, i, pip_config) ==
    IF i > Len(deps) THEN [status |-> "ok", pip_config |-> pip_config]
    ELSE LET t == ItemTest(deps[i])
         IN  IF t = "KeyError" THEN [status |-> "KeyError", pip_config |-> pip_config]
             ELSE IF t = "take" THEN ScanDeps(deps, i + 1, deps[i].pip)
             ELSE ScanDeps(deps, i + 1, pip_config)

\* lines 37-45 without the assertion of line 44: nothing to install
PipConfig_NoAssert(config) ==
    IF ~config.hasdeps THEN [status |-> "AssertionError", pip_config |-> <<>>]
    ELSE LET r == ScanDeps(config.deps, 1, <<>>)
         IN  IF r.status # "ok" THEN r
             ELSE IF r.pip_config = <<>>
                  THEN [status |-> "ok", pip_config |-> <<<<>>>>]
             ELSE r

\* lines 37-44: the pip list of the manifest, or the exception raised
PipConfig(config) ==
    IF ~config.hasdeps THEN [status |-> "AssertionError", pip_config |-> <<>>]
    ELSE LET r == ScanDeps(config.deps, 1, <<>>)
         IN  IF r.status # "ok" THEN r
             ELSE IF r.pip_config = <<>>
                  THEN [status |-> "AssertionError", pip_config |-> <<>>]
             ELSE r

CallPipInstallFromCondaYaml ==
    /\ pc = "idle"
    /\ \E m \in Manifests, f \in BOOLEAN :
         /\ manifest' = m /\ force' = f
         /\ LET r == PipConfig(m)
            IN  IF r.status = "ok"
                THEN StartList(PipInstallCmds(r.pip_config[1], f)) /\ error' = error
                ELSE /\ pc' = "raised" /\ error' = r.status
                     /\ UNCHANGED <<cmd_list, idx>>
    /\ op' = "pip_install_from_conda_yaml"
    /\ UNCHANGED <<verbose, split, shell, argv, invoked, launched, console, ret, nret>>
    /\ UNCHANGED <<procVars, in_colab, conda_exists, fsVars>>

\* ----------------------------------------------------------- install_rdkit
CONDA_URL == "https://repo.continuum.io/miniconda/Miniconda3-latest-Linux-x86_64.sh"
\* line 93: CONDA_URL.split('/')[-1]
conda_sh  == "Miniconda3-latest-Linux-x86_64.sh"

\* lines 94-99
RdkitCmdList ==
    << <<"wget", "-c", CONDA_URL>>,
       <<"chmod", "+x", conda_sh>>,
       <<"bash", "./Miniconda3-latest-Linux-x86_64.sh", "-b", "-f", "-p", "/usr/local">>,
       <<"conda", "install", "-q", "-y", "-c", "conda-forge", "rdkit">>,
       <<"rm", "-rf", conda_sh>> >>

\* line 100 with force meaning "install although the directory exists"
RdkitGuard_ForceInstalls(colab, exists, f) == colab /\ (~exists \/ f)

\* line 100
RdkitGuard(colab, exists, f) == colab /\ ~exists /\ ~f

CallInstallRdkit ==
    /\ pc = "idle"
    /\ \E colab \in BOOLEAN, exists \in BOOLEAN, f \in BOOLEAN :
         /\ in_colab' = colab /\ conda_exists' = exists /\ force' = f
         /\ IF RdkitGuard(colab, exists, f)
              THEN StartList(RdkitCmdList)
              ELSE pc' = "done" /\ UNCHANGED <<cmd_list, idx>>
    /\ op' = "install_rdkit"
    /\ UNCHANGED <<verbose, split, shell, argv, invoked, launched, console, ret, nret, error>>
    /\ UNCHANGED <<procVars, manifest, fsVars>>

\* -------------------------------------------------------------- clone_repo
\* line 71: repo_url.split('/')[-1].replace('.git', '')
RepoDirOf(url) == IF url = RepoUrl THEN "name" ELSE url

\* line 74 with a pattern that matches nothing
GlobStar_None(entries) == {}

\* line 74: glob.glob(f'{repo_dir}/*') does not match names starting with a dot
GlobStar(entries) == entries \ Hidden

\* shutil.move(afile, '.') refuses a destination that exists; the clone
\* directory itself is an entry of the working directory
DestExists(e) == cwd[e] # "absent" \/ e = RepoDirOf(RepoUrl)

CallCloneRepo ==
    /\ pc = "idle"
    /\ \E olds \in SUBSET (Names \ {RepoDirOf(RepoUrl)}) :
         cwd' = [n \in Names |-> IF n \in olds THEN "old" ELSE "absent"]
    /\ StartList(<< <<"git", "clone", RepoUrl>> >>)
    /\ split' = FALSE /\ shell' = TRUE
    /\ op' = "clone_repo"
    /\ UNCHANGED <<verbose, argv, invoked, launched, console, ret, nret, error>>
    /\ UNCHANGED <<procVars, argVars, repo, cloned, todo>>

\* line 74: the glob is evaluated once, before the first move
Glob ==
    /\ pc = "glob"
    /\ todo' = IF repo = <<>> THEN {} ELSE GlobStar(repo[1])
    /\ pc' = "move"
    /\ UNCHANGED <<op, cmd_list, idx, verbose, split, shell, argv, invoked, launched,
                   console, ret, nret, error, cwd, repo, cloned>>
    /\ UNCHANGED <<procVars, argVars>>

\* line 75: one shutil.move
MoveOne ==
    /\ pc = "move" /\ todo # {}
    /\ \E e \in todo :
         IF DestExists(e)
         THEN /\ pc' = "raised" /\ error' = "shutil.Error"
              /\ UNCHANGED <<cwd, repo, todo>>
         ELSE /\ cwd' = [cwd EXCEPT ![e] = "repo"]
              /\ repo' = <<repo[1] \ {e}>>
              /\ todo' = todo \ {e}
              /\ UNCHANGED <<pc, error>>
    /\ UNCHANGED <<op, cmd_list, idx, verbose, split, shell, argv, invoked, launched,
                   console, ret, nret, cloned>>
    /\ UNCHANGED <<procVars, argVars>>

\* line 76: shutil.rmtree(repo_dir) removes the directory and what is left in it
Rmtree ==
    /\ pc = "move" /\ todo = {}
    /\ IF repo = <<>>
         THEN pc' = "raised" /\ error' = "FileNotFoundError" /\ repo' = repo
         ELSE pc' = "done" /\ repo' = <<>> /\ error' = error
    /\ UNCHANGED <<op, cmd_list, idx, verbose, split, shell, argv, invoked, launched,
                   console, ret, nret, cwd, cloned, todo>>
    /\ UNCHANGED <<procVars, argVars>>

\* ------------------------------------------------------------------ run_cmd
\* run_cmd, lines 49-51: print the command, build argv, spawn the child
RunCmdStart ==
    /\ pc = "call"
    /\ invoked' = Append(invoked, cmd_list[idx])
    /\ console' = <<CmdEntry(cmd_list[idx])>>
    /\ argv' = ShlexSplit(cmd_list[idx], split)
    /\ pipe' = <<>> /\ written' = <<>> /\ returncode' = <<>>
    /\ \/ /\ \E h \in BOOLEAN : hung' = h
          /\ launched' = Append(launched, idx)
          /\ alive' = alive \cup {idx}
          /\ out_open' = TRUE
          /\ pc' = "loop"
          /\ error' = error
       \/ /\ pc' = "raised" /\ error' = "OSError"
          /\ UNCHANGED <<launched, alive, hung, out_open>>
    /\ UNCHANGED <<op, cmd_list, idx, verbose, split, shell, ret, nret>>
    /\ UNCHANGED <<argVars, fsVars>>

\* ------------------------------------------------------- the child process
\* the child writes one line to its standard output
ChildWrite ==
    /\ pc = "loop" /\ idx \in alive /\ out_open
    /\ Len(written) < MaxLines
    /\ \E l \in Lines :
         /\ pipe' = Append(pipe, l)
         /\ written' = Append(written, l)
    /\ UNCHANGED <<pc, op, cmd_list, idx, verbose, split, shell, argv, invoked,
                   launched, alive, hung, out_open, returncode, console, ret, nret, error>>
    /\ UNCHANGED <<argVars, fsVars>>

\* the child closes its standard output and keeps running
ChildCloseStdout ==
    /\ pc = "loop" /\ idx \in alive /\ out_open
    /\ out_open' = FALSE
    /\ UNCHANGED <<pc, op, cmd_list, idx, verbose, split, shell, argv, invoked,
                   launched, alive, hung, returncode, pipe, written, console, ret, nret, error>>
    /\ UNCHANGED <<argVars, fsVars>>

\* the child exits with some status; a successful git clone has created the
\* clone directory with some entries
ChildExit ==
    /\ pc = "loop" /\ idx \in alive /\ ~hung
    /\ \E c \in ExitCodes :
         /\ returncode' = <<c>>
         /\ IF op = "clone_repo" /\ c = 0
              THEN \E es \in SUBSET Names : repo' = <<es>> /\ cloned' = <<es>>
              ELSE UNCHANGED <<repo, cloned>>
    /\ alive' = alive \ {idx}
    /\ out_open' = FALSE
    /\ UNCHANGED <<pc, op, cmd_list, idx, verbose, split, shell, argv, invoked,
                   launched, hung, pipe, written, console, ret, nret, error>>
    /\ UNCHANGED <<argVars, cwd, todo>>

\* ------------------------------------------------------------ the read loop
\* a list that stops at the first status other than 0
AfterCmd_StopOnFailure ==
    IF Poll # <<0>> THEN "done"
    ELSE IF idx < Len(cmd_list) THEN "call"
    ELSE IF op = "clone_repo" THEN "glob"
    ELSE "done"

\* what the caller does once run_cmd has returned: the next element of the
\* list, or the rest of the calling function
AfterCmd ==
    IF idx < Len(cmd_list) THEN "call"
    ELSE IF op = "clone_repo" THEN "glob"
    ELSE "done"

\* line 102: install_rdkit's message after its list has been run
Epilogue ==
    IF idx = Len(cmd_list) /\ op = "install_rdkit" THEN <<MsgEntry>> ELSE <<>>

\* run_cmd, lines 52-61: one pass of the read loop, and on leaving it the
\* status, the error notice and the return
ReadLine ==
    /\ pc = "loop" /\ ReadlineReady
    /\ LET output == Strip(Readline)
           polled == Poll
       IN  IF BreakCond(output, polled)
           THEN LET return_code == Poll
                IN  /\ console' = console \o ErrorNotice(return_code) \o Epilogue
                    /\ ret' = return_code /\ nret' = nret + 1
                    /\ pc' = AfterCmd
                    /\ idx' = IF idx < Len(cmd_list) THEN idx + 1 ELSE idx
           ELSE /\ console' = IF EchoCond(output, verbose)
                                THEN Append(console, OutEntry(output))
                                ELSE console
                /\ UNCHANGED <<pc, idx, ret, nret>>
    /\ pipe' = IF pipe # <<>> THEN Tail(pipe) ELSE pipe
    /\ UNCHANGED <<op, cmd_list, verbose, split, shell, argv, invoked, launched,
                   alive, hung, out_open, returncode, written, error>>
    /\ UNCHANGED <<argVars, fsVars>>

Next ==
    \/ CallRunCmd
    \/ CallRunCmdList
    \/ CallPipInstallFromCondaYaml
    \/ CallInstallRdkit
    \/ CallCloneRepo
    \/ Glob
    \/ MoveOne
    \/ Rmtree
    \/ RunCmdStart
    \/ ChildWrite
    \/ ChildCloseStdout
    \/ ChildExit
    \/ ReadLine

Spec == Init /\ [][Next]_vars

\* The command runner on its own: run_cmd and run_cmd_list called directly.
RunnerNext ==
    \/ CallRunCmd
    \/ CallRunCmdList
    \/ RunCmdStart
    \/ ChildWrite
    \/ ChildCloseStdout
    \/ ChildExit
    \/ ReadLine

\* The interpreter keeps running the caller's code (RunCmdStart, ReadLine),
\* and a child that is not hung exits (ChildExit is disabled for a hung one).
FairSpec ==
    /\ Init /\ [][RunnerNext]_vars
    /\ WF_vars(RunCmdStart)
    /\ WF_vars(ReadLine)
    /\ WF_vars(ChildExit)

\* ================================================================= claims
Last(s) == s[Len(s)]

\* the most recent run_cmd call has returned; console, written, pipe and
\* returncode are those of that call
JustReturned == nret > 0 /\ nret = Len(invoked)

\* the output lines the current run_cmd call has echoed
Printed ==
    LET outs == SelectSeq(console, LAMBDA e : e.kind = "OUT")
    IN  [i \in 1..Len(outs) |-> outs[i].text]

\* the error notices the current run_cmd call has printed
Notices == SelectSeq(console, LAMBDA e : e.kind = "ERR")

\* the lines of s that are not blank, without their surrounding whitespace
RECURSIVE Visible(_)
Visible(s) ==
    IF s = <<>> THEN <<>>
    ELSE IF Strip(Head(s)) = <<>> THEN Visible(Tail(s))
    ELSE <<Strip(Head(s))>> \o Visible(Tail(s))

IsPrefix(s, t) == Len(s) <= Len(t) /\ s = SubSeq(t, 1, Len(s))

\* C1: when the child has exited with status 0 and run_cmd (verbose) has
\* returned, it has returned 0 and the lines it echoed are the lines the
\* child wrote, in order and with none dropped (read here up to surrounding
\* whitespace and blank lines, which print nothing visible).
C1_EchoesEveryLine ==
    (JustReturned /\ verbose /\ returncode = <<0>>)
        => (ret = <<0>> /\ Printed = Visible(written))

\* C2: when run_cmd has returned, the value it returned is the exit status
\* of its child, which has exited (never an unset status); a status N other
\* than 0 has been reported by exactly one error notice carrying N, a status
\* 0 by none, and no exception was raised.
C2_ReturnsExitStatus ==
    JustReturned =>
        /\ ret # <<>>
        /\ ret = returncode
        /\ Last(launched) \notin alive
        /\ ret[1] \in ExitCodes
        /\ (ret # <<0>> => Notices = <<[kind |-> "ERR", text |-> <<>>, code |-> ret]>>)
        /\ (ret = <<0>> => Notices = <<>>)
        /\ error # "OSError"

C2_Witness ==
    /\ JustReturned /\ ret = <<2>> /\ Len(Notices) = 1
    /\ written # <<>>

\* C3: run_cmd_list calls run_cmd on the elements of its list in list order,
\* each once: the calls made so far are a prefix of the list, a call that
\* returned a non-zero status is followed by the call for the next element,
\* the list call returns only after every element was called and spawned,
\* and only a spawn that raises (never an exit status) ends it early.
C3_EachOnceInOrder ==
    op = "run_cmd_list" =>
        /\ IsPrefix(invoked, cmd_list)
        /\ launched = [i \in 1..Len(launched) |-> i]
        /\ Len(invoked) - 1 <= Len(launched) /\ Len(launched) <= Len(invoked)
        /\ (pc = "done" => invoked = cmd_list /\ Len(launched) = Len(cmd_list)
                                              /\ nret = Len(cmd_list))
        /\ (pc = "raised" => error = "OSError" /\ Len(launched) = Len(invoked) - 1)
        /\ ((JustReturned /\ nret < Len(cmd_list))
                => pc = "call" /\ idx = nret + 1)

C3_Witness ==
    /\ op = "run_cmd_list" /\ pc = "loop"
    /\ Len(cmd_list) >= 2 /\ cmd_list[1] # cmd_list[2]
    /\ nret = 1 /\ ret = <<1>> /\ launched = <<1, 2>>

\* C4: the read loop is left only when the output stream is exhausted
\* (closed, nothing left unread) and the child has exited; a blank line read
\* after the exit while further lines are unread does not end it.
C4_BlankLineDoesNotEndLoop ==
    JustReturned => (pipe = <<>> /\ ~out_open /\ Last(launched) \notin alive)

\* the one mapping entry of a dependencies list, when it has exactly one
MappingEntries(m) == {i \in 1..Len(m.deps) : m.deps[i].isdict}
OnePipEntry(m) ==
    /\ m.hasdeps
    /\ Cardinality(MappingEntries(m)) = 1
    /\ \A i \in MappingEntries(m) : m.deps[i].haspip /\ m.deps[i].pip # <<>>
ThePipList(m) == m.deps[CHOOSE i \in MappingEntries(m) : TRUE].pip[1]

\* C5: for a manifest whose dependencies hold one mapping entry {pip: [..]},
\* the run_cmd calls made are pip install calls for the listed packages, one
\* per package in manifest order (a prefix of them while the routine runs,
\* all of them when it returns), and none for any other entry.
C5_OneInstallPerPackage ==
    (op = "pip_install_from_conda_yaml" /\ OnePipEntry(manifest)) =>
        /\ Len(invoked) <= Len(ThePipList(manifest))
        /\ \A i \in 1..Len(invoked) :
              /\ SubSeq(invoked[i], 1, 2) = <<"pip", "install">>
              /\ Last(invoked[i]) = ThePipList(manifest)[i]
              /\ Len(invoked[i]) = IF force THEN 5 ELSE 3
        /\ (pc = "done" => Len(invoked) = Len(ThePipList(manifest)))
        /\ (pc = "raised" => error = "OSError")

C5_Witness ==
    /\ op = "pip_install_from_conda_yaml" /\ pc = "done"
    /\ manifest.deps = <<StrItem, DictPip(<<"x", "y">>)>>
    /\ Len(invoked) = 2 /\ nret = 2 /\ ret = <<1>>

\* a manifest with no pip entry under dependencies
NoPipEntry(m) ==
    \/ ~m.hasdeps
    \/ \A i \in 1..Len(m.deps) :
          ~(m.deps[i].isdict /\ m.deps[i].haspip /\ m.deps[i].pip # <<>>)

\* C6: for a manifest with no pip entry under dependencies the routine has
\* aborted with an exception and no run_cmd call was made.
C6_AbortsBeforeInstall ==
    (op = "pip_install_from_conda_yaml" /\ NoPipEntry(manifest)) =>
        /\ pc = "raised"
        /\ error \in {"AssertionError", "KeyError"}
        /\ invoked = <<>> /\ launched = <<>> /\ cmd_list = <<>>

C6_Witness ==
    /\ op = "pip_install_from_conda_yaml" /\ pc = "raised"
    /\ manifest.hasdeps /\ manifest.deps = <<StrItem, DictPipNull>>
    /\ error = "AssertionError"

\* C7 as stated: after clone_repo has returned from a successful clone, every
\* entry of the clone directory, dot names included, is in the working
\* directory and the clone directory is gone.
C7_AllEntriesMoved ==
    (op = "clone_repo" /\ pc = "done" /\ cloned # <<>>) =>
        /\ \A e \in cloned[1] : cwd[e] = "repo"
        /\ repo = <<>>

\* C7 amended: after clone_repo has returned from a successful clone, every
\* entry of the clone directory whose name does not start with a dot is in
\* the working directory, every entry whose name starts with a dot has not
\* been moved (it is deleted with the directory), and the clone directory is
\* gone; clone_repo returns only after a successful clone.
C7_VisibleEntriesMoved ==
    (op = "clone_repo" /\ pc = "done") =>
        /\ cloned # <<>> /\ nret = 1 /\ ret = <<0>>
        /\ \A e \in cloned[1] \ Hidden : cwd[e] = "repo"
        /\ \A e \in cloned[1] \cap Hidden : cwd[e] # "repo"
        /\ repo = <<>>

C7_Witness ==
    /\ op = "clone_repo" /\ pc = "done"
    /\ cloned = <<{"f", ".g"}>>
    /\ cwd["f"] = "repo" /\ cwd[".g"] = "absent"

\* C8: at most one child is alive at any time, and the next command is
\* called only after the previous one's output has been drained completely
\* and the previous child has been seen to have exited.
C8_StrictlySequential ==
    /\ Cardinality(alive) <= 1
    /\ ((pc = "call" /\ idx > 1) => (alive = {} /\ returncode # <<>> /\ pipe = <<>>))

\* C9: run_cmd returns only after its child has exited; with a child that
\* never exits it never leaves the read loop; once the child has exited the
\* read loop is left; and a call whose children all exit comes to an end.
C9_TerminatesWithChild ==
    /\ [](\A i \in 1..nret : launched[i] \notin alive)
    /\ [][(pc = "loop" /\ hung) => pc' = "loop"]_vars
    /\ ((pc = "loop" /\ idx \notin alive) ~> (pc # "loop"))
    /\ ((pc \in {"call", "loop"}) ~> (pc \in {"done", "raised"} \/ (pc = "loop" /\ hung)))

C9_Witness ==
    /\ op = "run_cmd_list" /\ pc = "done" /\ nret = 2
    /\ written # <<>> /\ pipe = <<>>

\* C10: install_rdkit makes run_cmd calls only when the host is Colab, the
\* conda directory does not exist and force is false; then the calls are
\* wget, chmod, bash, conda, rm in this order, each once, whatever the exit
\* statuses, and all five have been made and spawned when it returns.
C10_BootstrapGuard ==
    op = "install_rdkit" =>
        IF in_colab /\ ~conda_exists /\ ~force
        THEN /\ IsPrefix([i \in 1..Len(invoked) |-> invoked[i][1]],
                         <<"wget", "chmod", "bash", "conda", "rm">>)
             /\ launched = [i \in 1..Len(launched) |-> i]
             /\ Len(invoked) - 1 <= Len(launched) /\ Len(launched) <= Len(invoked)
             /\ pc # "idle"
             /\ (pc = "done" => Len(launched) = 5 /\ nret = 5)
             /\ (pc = "raised" => error = "OSError")
             /\ ((JustReturned /\ nret < 5) => pc = "call" /\ idx = nret + 1)
        ELSE pc = "done" /\ invoked = <<>> /\ launched = <<>>

C10_Witness ==
    /\ op = "install_rdkit" /\ pc = "loop"
    /\ Len(launched) = 5 /\ nret = 4 /\ ret = <<1>>
====
